---- MODULE Spec2Model ----
(***************************************************************************)
(* The Unlisted Edge AI service (src/ai-service/app.py): the insight       *)
(* engine and the four HTTP handlers around it, as a state machine.        *)
(*                                                                         *)
(* Numbers.  The code computes with floats.  Here a score is an integer    *)
(* on a grid of 1/Scale, so Num(80) is 80.0 and Num(80) + 1 is the next    *)
(* value above it.  The prices among the inputs are divisors of 100, so    *)
(* that 100 / price is exact on the grid; the weights of the sector table  *)
(* are kept in hundredths (0.8 is 80), and weight * 10 and weight * 100    *)
(* are exact both here and in IEEE doubles for the table's values.         *)
(* A sentiment score is an integer on a grid of 1/(1000 * SubSteps).       *)
(*                                                                         *)
(* Left out of an insight: id (a uuid), date_generated and ai_metadata     *)
(* (two decorative random integers); of a sentiment reading: confidence,   *)
(* timestamp and the fixed factors list.  No property below reads them.    *)
(***************************************************************************)
EXTENDS Integers, Sequences, FiniteSets, TLC

VARIABLES
    models,     \* ai_engine.models, a dict
    scalers,    \* ai_engine.scalers, a dict
    jsonSilent, \* whether this build's request.get_json() answers None (TRUE)
                \* or raises (FALSE) for a request without a JSON body
    pc,         \* per worker thread: "idle", "received" or "responded"
    request,    \* per worker: the request being served
    entropy,    \* per worker: the values the random source hands this request
    response,   \* per worker: the response built by the handler
    calls,      \* per worker: calls of generate_company_insight for this request
    log,        \* per worker: what logger.error received for this request
    fixture     \* a (confidence, growth, risk) triple and its classification

vars == <<models, scalers, jsonSilent, pc, request, entropy, response, calls, log, fixture>>

(***************************************************************************)
(* Bounds of the model.                                                    *)
(***************************************************************************)
Scale == 2          \* grid points per unit of a score
Sigmas == 3         \* base_confidence is drawn within Sigmas deviations
SubSteps == 3       \* grid points per 0.001 of a sentiment score
SentSigmas == 8     \* sentiment_score is drawn within SentSigmas deviations
MaxBatch == 3       \* longest companies list of a batch request
NumWorkers == 2     \* worker threads of the concurrent specification

(***************************************************************************)
(* Numbers of the program.                                                 *)
(***************************************************************************)
BaseMean == 75      \* np.random.normal(75, 10)
BaseStd == 10
ConfMin == 50       \* max(50, min(95, ...))
ConfMax == 95
MaxFactors == 5     \* size=min(5, len(factors))
SentMeanMilli == 600    \* np.random.normal(0.6, 0.2), in thousandths
SentStdMilli == 200

Num(n) == n * Scale

Min(a, b) == IF b < a THEN b ELSE a     \* Python's min(a, b)
Max(a, b) == IF b > a THEN b ELSE a     \* Python's max(a, b)

\* int(x) of a grid value: truncation toward zero
Trunc(x) == IF x >= 0 THEN x \div Scale ELSE -((-x) \div Scale)

\* a / b on integers with b # 0, rounded toward zero (exact for the inputs used)
Quot(a, b) ==
    IF b > 0 THEN (IF a >= 0 THEN a \div b ELSE -((-a) \div b))
    ELSE (IF a >= 0 THEN -(a \div (-b)) ELSE (-a) \div (-b))

(***************************************************************************)
(* JSON values, as request.get_json() returns them.                        *)
(***************************************************************************)
JNull == [kind |-> "null"]
JNum(n) == [kind |-> "number", n |-> n]
JNaN == [kind |-> "nan"]            \* the literal NaN, which json.loads accepts
JInf == [kind |-> "inf"]            \* the literal Infinity
JStr(s) == [kind |-> "string", s |-> s]
JArr(items) == [kind |-> "array", items |-> items]
JObj(fields) == [kind |-> "object", fields |-> fields]
NoFields == [k \in {} |-> JNull]
NoBody == [kind |-> "missing"]      \* a request that carries no JSON body

\* d.get(key, default) of a dict
Get(d, key, default) ==
    IF key \in DOMAIN d.fields THEN d.fields[key] ELSE default

\* Python truthiness: `not v` is ~Truthy(v)
Truthy(v) ==
    CASE v.kind = "null" -> FALSE
      [] v.kind = "missing" -> FALSE
      [] v.kind = "number" -> v.n # 0
      [] v.kind = "array" -> Len(v.items) > 0
      [] v.kind = "object" -> DOMAIN v.fields # {}
      [] v.kind = "string" -> v.s # ""
      [] OTHER -> TRUE

\* type(v).__name__, as it appears in an exception's text
TypeName(v) ==
    CASE v.kind = "null" -> "NoneType"
      [] v.kind = "array" -> "list"
      [] v.kind = "object" -> "dict"
      [] v.kind = "string" -> "str"
      [] v.kind = "number" -> "int"
      [] OTHER -> "float"

\* the texts float() parses, with their values
NumericText == ("20" :> 20) @@ ("100" :> 100)

\* float(v): the value, or the exception's text
Float(v) ==
    CASE v.kind \in {"number", "nan", "inf"} -> [ok |-> TRUE, val |-> v]
      [] v.kind = "string" ->
            IF v.s \in DOMAIN NumericText
            THEN [ok |-> TRUE, val |-> JNum(NumericText[v.s])]
            ELSE [ok |-> FALSE, error |-> <<"could not convert string to float: ", v.s>>]
      [] OTHER ->
            [ok |-> FALSE,
             error |-> <<"float() argument must be a string or a real number, not ", TypeName(v)>>]

(***************************************************************************)
(* The static tables.                                                      *)
(***************************************************************************)
\* weights in hundredths
sector_weights ==
    ("Technology" :> [growth |-> 80, stability |-> 60, risk |-> 70]) @@
    ("Healthcare" :> [growth |-> 70, stability |-> 80, risk |-> 50]) @@
    ("Finance" :> [growth |-> 60, stability |-> 90, risk |-> 60]) @@
    ("Education" :> [growth |-> 70, stability |-> 70, risk |-> 60]) @@
    ("E-commerce" :> [growth |-> 90, stability |-> 50, risk |-> 80]) @@
    ("default" :> [growth |-> 60, stability |-> 70, risk |-> 60])

factor_pools ==
    ("Technology" :> <<
        "Strong innovation pipeline and R&D investment",
        "Market leadership in emerging technologies",
        "Scalable business model with network effects",
        "High customer retention and engagement metrics",
        "Competitive moat through proprietary technology">>) @@
    ("Healthcare" :> <<
        "Robust clinical trial pipeline",
        "Regulatory approval momentum",
        "Strong intellectual property portfolio",
        "Growing addressable market size",
        "Strategic partnerships with healthcare providers">>) @@
    ("Finance" :> <<
        "Strong capital adequacy ratios",
        "Diversified revenue streams",
        "Digital transformation progress",
        "Regulatory compliance excellence",
        "Market share expansion in key segments">>) @@
    ("Education" :> <<
        "Growing digital adoption trends",
        "Strong brand recognition and trust",
        "Scalable online delivery platform",
        "International expansion opportunities",
        "Government policy support for education">>) @@
    ("default" :> <<
        "Strong market position in sector",
        "Consistent revenue growth trajectory",
        "Effective cost management strategies",
        "Experienced management team",
        "Favorable industry dynamics">>)

\* a dict key must be hashable: a list or a dict is not
Hashable(v) == v.kind \notin {"array", "object"}

\* table.get(key, table['default']) for a hashable key
Lookup(table, key) ==
    IF key.kind = "string" /\ key.s \in DOMAIN table THEN table[key.s] ELSE table["default"]

\* weight * k for a weight in hundredths, on the grid
Times(weight, k) == (weight * k * Scale) \div 100

(***************************************************************************)
(* AIInsightEngine.                                                        *)
(***************************************************************************)
EmptyDict == [k \in {} |-> 0]

\* min(10, 100 / price) * 5, for a price that is not zero
price_stability(price) ==
    CASE price.kind = "nan" -> Num(10) * 5      \* nan < 10 is false: min keeps 10
      [] price.kind = "inf" -> 0                \* 100 / inf = 0.0
      [] OTHER -> Min(Num(10), Quot(Num(100), price.n)) * 5

\* ConfidenceScore without its upper clamp
ConfidenceUnclamped(base_confidence, weights, price) ==
    Max(Num(ConfMin),
        base_confidence + Times(weights.stability, 10) + price_stability(price))

\* the value of confidence_score after line 94
ConfidenceScore(base_confidence, weights, price) ==
    Max(Num(ConfMin), Min(Num(ConfMax),
        base_confidence + Times(weights.stability, 10) + price_stability(price)))

\* Recommend with the SELL rule tried first
RecommendSellFirst(confidence_score, growth_score, risk_score) ==
    IF risk_score > Num(80) THEN "SELL"
    ELSE IF confidence_score > Num(80) /\ growth_score > Num(70) THEN "BUY"
    ELSE IF confidence_score > Num(65) /\ risk_score < Num(60) THEN "HOLD"
    ELSE "WATCH"

\* Recommend with >= for > in the growth test of the BUY rule
RecommendGrowthAtLeast(confidence_score, growth_score, risk_score) ==
    IF confidence_score > Num(80) /\ growth_score >= Num(70) THEN "BUY"
    ELSE IF confidence_score > Num(65) /\ risk_score < Num(60) THEN "HOLD"
    ELSE IF risk_score > Num(80) THEN "SELL"
    ELSE "WATCH"

\* the if / elif chain of lines 100-107
Recommend(confidence_score, growth_score, risk_score) ==
    IF confidence_score > Num(80) /\ growth_score > Num(70) THEN "BUY"
    ELSE IF confidence_score > Num(65) /\ risk_score < Num(60) THEN "HOLD"
    ELSE IF risk_score > Num(80) THEN "SELL"
    ELSE "WATCH"

\* s without its i-th element
Remove(s, i) == SubSeq(s, 1, i - 1) \o SubSeq(s, i + 1, Len(s))

\* Choice with replace=True: a drawn element stays in the pool
RECURSIVE ChoiceWithReplacement(_, _, _)
ChoiceWithReplacement(pool, size, picks) ==
    IF size = 0 THEN <<>>
    ELSE <<pool[Head(picks)]>> \o ChoiceWithReplacement(pool, size - 1, Tail(picks))

\* np.random.choice(pool, size, replace=False): picks[k] is the position, among
\* the elements still left, of the k-th one drawn
RECURSIVE Choice(_, _, _)
Choice(pool, size, picks) ==
    IF size = 0 THEN <<>>
    ELSE <<pool[Head(picks)]>> \o Choice(Remove(pool, Head(picks)), size - 1, Tail(picks))

_generate_key_factors(sector, weights, price, picks) ==
    LET factors == Lookup(factor_pools, sector)
    IN  Choice(factors, Min(MaxFactors, Len(factors)), picks)

\* str(v) inside an f-string; symbols and sectors among the inputs are texts
Format(v) == v.s

\* The result is [ok |-> TRUE, insight |-> ...], or [ok |-> FALSE, error |-> ...]
\* when the body raises.  draw is [base |-> ..., picks |-> ...].
_analyze_company_fundamentals(company_id, symbol, price, sector, draw) ==
    IF ~Hashable(sector)
    THEN [ok |-> FALSE, error |-> <<"unhashable type: ", TypeName(sector)>>]
    ELSE IF price.kind = "number" /\ price.n = 0
    THEN [ok |-> FALSE, error |-> <<"float division by zero">>]
    ELSE
    LET weights == Lookup(sector_weights, sector)
        confidence_score == ConfidenceScore(draw.base, weights, price)
        growth_score == Times(weights.growth, 100)
        risk_score == Times(weights.risk, 100)
        recommendation == Recommend(confidence_score, growth_score, risk_score)
        key_factors == _generate_key_factors(sector, weights, price, draw.picks)
    IN  [ok |-> TRUE,
         insight |-> [company_id |-> company_id,
                      company_name |-> <<Format(symbol), " Analysis">>,
                      symbol |-> symbol,
                      insight_text |-> <<recommendation, Format(symbol), Format(sector)>>,
                      confidence_score |-> Trunc(confidence_score),
                      recommendation |-> recommendation,
                      key_factors |-> key_factors]]

\* [success |-> TRUE, insight |-> ...] or [success |-> FALSE, error |-> str(e)]
generate_company_insight(company_data, draw) ==
    IF company_data.kind # "object"
    THEN [success |-> FALSE,
          error |-> <<TypeName(company_data), " object has no attribute 'get'">>]
    ELSE
    LET company_id == Get(company_data, "id", JNum(1))
        symbol == Get(company_data, "symbol", JStr("UNKNOWN"))
        current_price == Float(Get(company_data, "current_price", JNum(100)))
        sector == Get(company_data, "sector", JStr("Technology"))
    IN  IF ~current_price.ok
        THEN [success |-> FALSE, error |-> current_price.error]
        ELSE LET insights == _analyze_company_fundamentals(
                                 company_id, symbol, current_price.val, sector, draw)
             IN  IF insights.ok
                 THEN [success |-> TRUE, insight |-> insights.insight]
                 ELSE [success |-> FALSE, error |-> insights.error]

\* what line 66 hands to logger.error, if anything
InsightLog(result) ==
    IF result.success THEN <<>> ELSE << <<"Insight generation failed: ", result.error>> >>

(***************************************************************************)
(* The HTTP handlers.  Each *_result operator is the handler's body as a   *)
(* function of the request body and of the values the random source hands  *)
(* it: the response, the number of engine calls and the error log.         *)
(***************************************************************************)
Resp(status, body) == [status |-> status, body |-> body]

\* request.get_json(): Flask answers None or raises for a request without a
\* JSON body, depending on the build; a raise is caught by the handler's
\* `except Exception`
get_json(body) ==
    IF body.kind = "missing"
    THEN (IF jsonSilent THEN [raised |-> FALSE, value |-> JNull] ELSE [raised |-> TRUE])
    ELSE [raised |-> FALSE, value |-> body]

health_check_result ==
    [response |-> Resp(200, [status |-> "healthy",
                             service |-> "Unlisted Edge AI Service",
                             version |-> "2.1.0"]),
     calls |-> 0, log |-> <<>>]

generate_insight_result(body, draw) ==
    LET company_data == get_json(body)
    IN  IF company_data.raised
        THEN [response |-> Resp(500, [error |-> <<"Internal server error">>]),
              calls |-> 0, log |-> << <<"API error: ", <<"get_json">> >> >>]
        ELSE IF ~Truthy(company_data.value)
        THEN [response |-> Resp(400, [success |-> FALSE,
                                      error |-> <<"No company data provided">>]),
              calls |-> 0, log |-> <<>>]
        ELSE LET result == generate_company_insight(company_data.value, draw)
             IN  IF result.success
                 THEN [response |-> Resp(200, result.insight),
                       calls |-> 1, log |-> <<>>]
                 ELSE [response |-> Resp(500, [error |-> result.error]),
                       calls |-> 1, log |-> InsightLog(result)]

\* BatchLoop that stops at the first item that fails
RECURSIVE BatchLoopStopAtFailure(_, _)
BatchLoopStopAtFailure(companies, draws) ==
    IF companies = <<>> THEN [results |-> <<>>, log |-> <<>>]
    ELSE LET insight == generate_company_insight(Head(companies), Head(draws))
         IN  IF ~insight.success THEN [results |-> <<>>, log |-> InsightLog(insight)]
             ELSE LET rest == BatchLoopStopAtFailure(Tail(companies), Tail(draws))
                  IN  [results |-> <<insight.insight>> \o rest.results, log |-> rest.log]

\* the loop of lines 239-243 over the list companies, one draw per item
RECURSIVE BatchLoop(_, _)
BatchLoop(companies, draws) ==
    IF companies = <<>> THEN [results |-> <<>>, log |-> <<>>]
    ELSE LET insight == generate_company_insight(Head(companies), Head(draws))
             rest == BatchLoop(Tail(companies), Tail(draws))
         IN  [results |-> (IF insight.success THEN <<insight.insight>> ELSE <<>>)
                            \o rest.results,
              log |-> InsightLog(insight) \o rest.log]

BatchFailed(detail) ==
    [response |-> Resp(500, [error |-> <<"Batch analysis failed">>]),
     calls |-> 0, log |-> << <<"Batch analysis error: ", detail>> >>]

\* companies among the inputs is absent, null, a number or a list
batch_analysis_result(body, draws) ==
    LET data == get_json(body)
    IN  IF data.raised THEN BatchFailed(<<"get_json">>)
        ELSE IF data.value.kind # "object"
        THEN BatchFailed(<<TypeName(data.value), " object has no attribute 'get'">>)
        ELSE LET companies == Get(data.value, "companies", JArr(<<>>))
             IN  IF ~Truthy(companies)
                 THEN [response |-> Resp(400, [success |-> FALSE,
                                               error |-> <<"No companies provided">>]),
                       calls |-> 0, log |-> <<>>]
                 ELSE IF companies.kind # "array"
                 THEN BatchFailed(<<TypeName(companies), " object is not iterable">>)
                 ELSE LET loop == BatchLoop(companies.items, draws)
                      IN  [response |-> Resp(200, [success |-> TRUE,
                                                   insights |-> loop.results,
                                                   processed_count |-> Len(loop.results)]),
                           calls |-> Len(companies.items), log |-> loop.log]

\* the number of items the loop of batch_analysis visits for this body
ItemCount(body) ==
    IF body.kind = "object" /\ "companies" \in DOMAIN body.fields
       /\ body.fields["companies"].kind = "array"
    THEN Len(body.fields["companies"].items) ELSE 0

SentUnit == 1000 * SubSteps     \* 1.0 on the sentiment grid

\* round(x, 3) of a sentiment grid value, in thousandths (half to even)
Round3(x) ==
    LET q == x \div SubSteps
        r == x % SubSteps
    IN  IF 2 * r < SubSteps THEN q
        ELSE IF 2 * r > SubSteps THEN q + 1
        ELSE IF q % 2 = 0 THEN q ELSE q + 1

SentimentDescription ==
    ("Bullish" :>
        "AI models indicate positive market momentum with strong investor confidence") @@
    ("Neutral" :>
        "Market shows balanced sentiment with mixed signals from AI indicators") @@
    ("Bearish" :>
        "AI analysis suggests cautious market conditions with risk-off sentiment")

market_sentiment_result(drawn) ==
    LET sentiment_score == Max(-SentUnit, Min(SentUnit, drawn))
        sentiment == IF sentiment_score > 300 * SubSteps THEN "Bullish"
                     ELSE IF sentiment_score > -300 * SubSteps THEN "Neutral"
                     ELSE "Bearish"
    IN  [response |-> Resp(200, [sentiment |-> sentiment,
                                 score |-> Round3(sentiment_score),
                                 description |-> SentimentDescription[sentiment]]),
         calls |-> 0, log |-> <<>>]

(***************************************************************************)
(* The state machine: a worker thread receives a request, runs its         *)
(* handler, and the response is sent.                                      *)
(***************************************************************************)
NoRequest == [endpoint |-> "none"]
NoResponse == [status |-> 0]
NoFixture == [recommendation |-> "none"]

\* the state after `ai_engine = AIInsightEngine()`, with the given workers idle
InitServer(workers) ==
    /\ models = EmptyDict
    /\ scalers = EmptyDict
    /\ jsonSilent \in BOOLEAN
    /\ pc = [w \in workers |-> "idle"]
    /\ request = [w \in workers |-> NoRequest]
    /\ entropy = [w \in workers |-> <<>>]
    /\ response = [w \in workers |-> NoResponse]
    /\ calls = [w \in workers |-> 0]
    /\ log = [w \in workers |-> <<>>]

\* Flask hands a request to worker w
Receive(w, requests) ==
    /\ pc[w] = "idle"
    /\ \E r \in requests : request' = [request EXCEPT ![w] = r]
    /\ pc' = [pc EXCEPT ![w] = "received"]
    /\ entropy' = [entropy EXCEPT ![w] = <<>>]
    /\ calls' = [calls EXCEPT ![w] = 0]
    /\ log' = [log EXCEPT ![w] = <<>>]
    /\ UNCHANGED <<models, scalers, jsonSilent, response, fixture>>

\* worker w finishes its handler with the given outcome
Finish(w, drawn, outcome) ==
    /\ pc' = [pc EXCEPT ![w] = "responded"]
    /\ entropy' = [entropy EXCEPT ![w] = drawn]
    /\ response' = [response EXCEPT ![w] = outcome.response]
    /\ calls' = [calls EXCEPT ![w] = outcome.calls]
    /\ log' = [log EXCEPT ![w] = outcome.log]
    /\ UNCHANGED <<models, scalers, jsonSilent, request, fixture>>

health_check(w) ==
    /\ pc[w] = "received"
    /\ request[w].endpoint = "/health"
    /\ Finish(w, <<>>, health_check_result)

\* generate_insight that keeps its outcomes in ai_engine.models, by request body
generate_insight_cached(w, draws) ==
    /\ pc[w] = "received"
    /\ request[w].endpoint = "/ai/insight"
    /\ \E d \in draws :
           LET key == request[w].body
               outcome == IF key \in DOMAIN models THEN models[key]
                          ELSE generate_insight_result(key, d)
           IN  /\ models' = (key :> outcome) @@ models
               /\ pc' = [pc EXCEPT ![w] = "responded"]
               /\ entropy' = [entropy EXCEPT ![w] = <<d>>]
               /\ response' = [response EXCEPT ![w] = outcome.response]
               /\ calls' = [calls EXCEPT ![w] = outcome.calls]
               /\ log' = [log EXCEPT ![w] = outcome.log]
    /\ UNCHANGED <<scalers, jsonSilent, request, fixture>>

generate_insight(w, draws) ==
    /\ pc[w] = "received"
    /\ request[w].endpoint = "/ai/insight"
    /\ \E d \in draws : Finish(w, <<d>>, generate_insight_result(request[w].body, d))

batch_analysis(w, draws) ==
    /\ pc[w] = "received"
    /\ request[w].endpoint = "/ai/batch-analysis"
    /\ \E ds \in [1..ItemCount(request[w].body) -> draws] :
           Finish(w, ds, batch_analysis_result(request[w].body, ds))

market_sentiment(w, draws) ==
    /\ pc[w] = "received"
    /\ request[w].endpoint = "/ai/market-sentiment"
    /\ \E d \in draws :
           Finish(w, <<[sentiment_score |-> d]>>, market_sentiment_result(d))

\* the response of worker w is sent; the worker is idle again
Reply(w) ==
    /\ pc[w] = "responded"
    /\ pc' = [pc EXCEPT ![w] = "idle"]
    /\ request' = [request EXCEPT ![w] = NoRequest]
    /\ response' = [response EXCEPT ![w] = NoResponse]
    /\ entropy' = [entropy EXCEPT ![w] = <<>>]
    /\ calls' = [calls EXCEPT ![w] = 0]
    /\ log' = [log EXCEPT ![w] = <<>>]
    /\ UNCHANGED <<models, scalers, jsonSilent, fixture>>

(***************************************************************************)
(* Inputs.                                                                 *)
(***************************************************************************)
Sectors == {"Technology", "Healthcare", "Finance", "Education", "E-commerce",
            "Unknown-Sector-XYZ"}

\* values of current_price: numbers that divide 100, zero, the float
\* specials, texts and null
PriceValues == {JNum(-100), JNum(0), JNum(1), JNum(20), JNum(100), JNaN, JInf,
                JStr("abc"), JStr("20"), JNull}

Company(id, symbol, price, sector) ==
    JObj(("id" :> JNum(id)) @@ ("symbol" :> JStr(symbol)) @@
         ("current_price" :> price) @@ ("sector" :> sector))

\* the object d with only the given keys
Only(d, keys) == JObj([k \in keys |-> d.fields[k]])

InsightBodies ==
    {Company(7, "ACME", p, JStr(s)) : p \in PriceValues, s \in Sectors}
    \cup {Only(Company(7, "ACME", p, JStr("Finance")), {"current_price"}) : p \in PriceValues}
    \cup {Only(Company(7, "ACME", JNum(100), JStr(s)), {"symbol", "sector"}) : s \in Sectors}
    \cup {Company(7, "ACME", JNum(100), JArr(<<JStr("Finance")>>)),
          Company(7, "ACME", JNum(0), JArr(<<JStr("Finance")>>))}
    \cup {NoBody, JNull, JObj(NoFields), JArr(<<>>), JArr(<<JNum(1)>>), JNum(0), JNum(5)}

\* base_confidence on the grid, within Sigmas standard deviations of the mean
BaseDraws == Num(BaseMean - Sigmas * BaseStd) .. Num(BaseMean + Sigmas * BaseStd)

\* every way np.random.choice can draw n of n elements without replacement
AllPicks(n) == {p \in [1..n -> 1..n] : \A k \in 1..n : p[k] <= n - k + 1}

\* two of them: the pool's order and its reverse
PickSamples(n) == {[k \in 1..n |-> 1], [k \in 1..n |-> n - k + 1]}

InsightDraws == {[base |-> b, picks |-> p] : b \in BaseDraws, p \in PickSamples(MaxFactors)}

InsightRequests == {[endpoint |-> "/ai/insight", body |-> b] : b \in InsightBodies}

\* items of a companies list: two well-formed ones, one with a price that is
\* no number, one that is no object
BatchItems ==
    {Company(1, "ACME", JNum(100), JStr("Technology")),
     Company(2, "MEDI", JNum(20), JStr("Healthcare")),
     Company(3, "BAD", JStr("abc"), JStr("Finance")),
     JNull}

SeqsUpTo(S, n) == UNION {[1..k -> S] : k \in 0..n}

BatchBodies ==
    {JObj("companies" :> JArr(items)) : items \in SeqsUpTo(BatchItems, MaxBatch)}
    \cup {JObj("companies" :> JNull), JObj("companies" :> JNum(5)),
          JObj(NoFields), JObj("other" :> JNum(1)),
          NoBody, JNull, JArr(<<>>), JArr(<<JNum(1)>>)}

BatchRequests == {[endpoint |-> "/ai/batch-analysis", body |-> b] : b \in BatchBodies}

BatchDraws == {[base |-> Num(b), picks |-> [k \in 1..MaxFactors |-> 1]] : b \in {60, 80}}

\* sentiment_score on its grid, within SentSigmas standard deviations
SentimentDraws ==
    ((SentMeanMilli - SentSigmas * SentStdMilli) * SubSteps) ..
    ((SentMeanMilli + SentSigmas * SentStdMilli) * SubSteps)

OtherRequests == {[endpoint |-> "/ai/market-sentiment"], [endpoint |-> "/health"]}

Requests == InsightRequests \cup BatchRequests \cup OtherRequests

(***************************************************************************)
(* Spec: one worker serving any sequence of requests.                      *)
(***************************************************************************)
Init == InitServer({1}) /\ fixture = NoFixture

Next ==
    \/ Receive(1, Requests)
    \/ generate_insight(1, InsightDraws)
    \/ batch_analysis(1, BatchDraws)
    \/ market_sentiment(1, SentimentDraws)
    \/ health_check(1)
    \/ Reply(1)

Spec == Init /\ [][Next]_vars

(***************************************************************************)
(* SpecFactors: one worker serving /ai/insight for every sector, with      *)
(* every outcome of the draw of key factors.                               *)
(***************************************************************************)
FactorRequests ==
    {[endpoint |-> "/ai/insight", body |-> Company(7, "ACME", JNum(100), JStr(s))] :
        s \in Sectors}
    \cup {[endpoint |-> "/ai/insight",
           body |-> Only(Company(7, "ACME", JNum(100), JStr("Finance")), {"symbol"})]}

FactorDraws ==
    {[base |-> Num(b), picks |-> p] : b \in {BaseMean}, p \in AllPicks(MaxFactors)}

NextFactors ==
    \/ Receive(1, FactorRequests)
    \/ generate_insight(1, FactorDraws)
    \/ Reply(1)

SpecFactors == Init /\ [][NextFactors]_vars

(***************************************************************************)
(* SpecConcurrent: NumWorkers threads serving requests at the same time.   *)
(***************************************************************************)
ConcurrentRequests ==
    {[endpoint |-> "/ai/insight",
      body |-> Company(1, "ACME", JNum(100), JStr("Technology"))],
     [endpoint |-> "/ai/insight",
      body |-> Company(3, "BAD", JStr("abc"), JStr("Finance"))],
     [endpoint |-> "/ai/batch-analysis",
      body |-> JObj("companies" :> JArr(<<Company(1, "ACME", JNum(100), JStr("Technology")),
                                         Company(3, "BAD", JStr("abc"), JStr("Finance"))>>))]}
    \cup OtherRequests

ConcurrentSentimentDraws == {SentMeanMilli * SubSteps, 300 * SubSteps + 1}

InitConcurrent == InitServer(1..NumWorkers) /\ fixture = NoFixture

NextConcurrent ==
    \E w \in 1..NumWorkers :
        \/ Receive(w, ConcurrentRequests)
        \/ generate_insight(w, BatchDraws)
        \/ batch_analysis(w, BatchDraws)
        \/ market_sentiment(w, ConcurrentSentimentDraws)
        \/ health_check(w)
        \/ Reply(w)

SpecConcurrent == InitConcurrent /\ [][NextConcurrent]_vars

(***************************************************************************)
(* SpecRecommend: the classification of lines 100-107 applied to fixtures  *)
(* around its thresholds.                                                  *)
(***************************************************************************)
FixtureConfidences == {Num(c) + k : c \in {50, 65, 80, 90, 95}, k \in -1..1}
FixtureScores == {Num(x) + k : x \in {60, 70, 80, 90}, k \in -1..1}

InitRecommend ==
    /\ InitServer({1})
    /\ fixture \in {[confidence_score |-> c, growth_score |-> g, risk_score |-> r,
                     recommendation |-> "none"] :
                        c \in FixtureConfidences, g \in FixtureScores, r \in FixtureScores}

Classify ==
    /\ fixture.recommendation = "none"
    /\ fixture' = [fixture EXCEPT !.recommendation =
                      Recommend(fixture.confidence_score, fixture.growth_score,
                                fixture.risk_score)]
    /\ UNCHANGED <<models, scalers, jsonSilent, pc, request, entropy, response, calls, log>>

NextRecommend == Classify

SpecRecommend == InitRecommend /\ [][NextRecommend]_vars

(***************************************************************************)
(* Properties.                                                             *)
(***************************************************************************)
Workers == DOMAIN pc

Responded(w, endpoint) == pc[w] = "responded" /\ request[w].endpoint = endpoint

\* the insights a worker's response carries
Insights(w) ==
    IF Responded(w, "/ai/insight") /\ response[w].status = 200
    THEN {response[w].body}
    ELSE IF Responded(w, "/ai/batch-analysis") /\ response[w].status = 200
    THEN {response[w].body.insights[i] : i \in 1..Len(response[w].body.insights)}
    ELSE {}

Recommendations == {"BUY", "HOLD", "SELL", "WATCH"}

\* C1: the recommendation is the first rule that matches, in the order BUY,
\* HOLD, SELL, WATCH; confidence 90 with growth 80 is BUY whatever the risk.
C1_FirstMatchingRule ==
    fixture.recommendation # "none" =>
        LET c == fixture.confidence_score
            g == fixture.growth_score
            r == fixture.risk_score
            buy == c > Num(80) /\ g > Num(70)
            hold == c > Num(65) /\ r < Num(60)
            sell == r > Num(80)
        IN  /\ buy => fixture.recommendation = "BUY"
            /\ ~buy /\ hold => fixture.recommendation = "HOLD"
            /\ ~buy /\ ~hold /\ sell => fixture.recommendation = "SELL"
            /\ ~buy /\ ~hold /\ ~sell => fixture.recommendation = "WATCH"
            /\ c = Num(90) /\ g = Num(80) => fixture.recommendation = "BUY"

C1_Witness ==
    /\ fixture.recommendation = "BUY"
    /\ fixture.confidence_score = Num(90)
    /\ fixture.growth_score = Num(80)
    /\ fixture.risk_score > Num(80)

\* C2: every insight returned with success has an integer confidence_score in
\* 50..95 and one of the four recommendations.
C2_ConfidenceAndRecommendationInRange ==
    \A w \in Workers : \A insight \in Insights(w) :
        /\ insight.confidence_score \in ConfMin..ConfMax
        /\ insight.recommendation \in Recommendations

\* the upper clamp acts: an unrecognized sector, a NaN price, the top score
C2_Witness ==
    /\ Responded(1, "/ai/insight")
    /\ response[1].status = 200
    /\ request[1].body = Company(7, "ACME", JNaN, JStr("Unknown-Sector-XYZ"))
    /\ response[1].body.confidence_score = ConfMax
    /\ entropy[1][1].base = Num(BaseMean - Sigmas * BaseStd)

\* the sector a request's company names: company_data.get('sector', 'Technology')
SectorOf(company) == Get(company, "sector", JStr("Technology")).s

\* the pool the specification gives a sector name: its own, or the default one
PoolOf(name) ==
    IF name \in DOMAIN factor_pools THEN factor_pools[name] ELSE factor_pools["default"]

Elements(seq) == {seq[i] : i \in 1..Len(seq)}

\* C3: key_factors of a successful insight are at most 5, without duplicates,
\* all from the pool of the input's sector, or from the default pool when the
\* sector has none; an unrecognized sector is served with the default profile
\* and pool, and succeeds.
C3_KeyFactorsFromPool ==
    \A w \in Workers :
        Responded(w, "/ai/insight") /\ request[w].body.kind = "object" =>
            LET name == SectorOf(request[w].body)
                insight == response[w].body
            IN  /\ response[w].status = 200 =>
                    /\ Len(insight.key_factors) <= MaxFactors
                    /\ Cardinality(Elements(insight.key_factors)) = Len(insight.key_factors)
                    /\ Elements(insight.key_factors) \subseteq Elements(PoolOf(name))
                /\ name \notin DOMAIN sector_weights /\ request[w].body.fields["current_price"] = JNum(100) =>
                    /\ response[w].status = 200
                    /\ Elements(insight.key_factors) \subseteq Elements(factor_pools["default"])
                    /\ insight.confidence_score =
                           Trunc(ConfidenceScore(entropy[w][1].base, sector_weights["default"],
                                                 JNum(100)))

\* an unrecognized sector, served from the default pool in an order that is
\* not the pool's
C3_Witness ==
    /\ Responded(1, "/ai/insight")
    /\ response[1].status = 200
    /\ SectorOf(request[1].body) = "Unknown-Sector-XYZ"
    /\ response[1].body.key_factors[1] = "Favorable industry dynamics"
    /\ response[1].body.key_factors[2] = "Strong market position in sector"
    /\ Len(response[1].body.key_factors) = MaxFactors

\* the companies list of a batch request that has one
CompaniesOf(body) == body.fields["companies"].items

HasCompanies(body) ==
    /\ body.kind = "object"
    /\ "companies" \in DOMAIN body.fields
    /\ body.fields["companies"].kind = "array"
    /\ Len(body.fields["companies"].items) > 0

\* C4: a batch request with a non-empty companies list is answered 200 with
\* success, insights holding exactly the insights of the items that succeed, in
\* input order, and processed_count their number; an item whose price is no
\* number is dropped.
C4_BatchKeepsSuccesses ==
    \A w \in Workers :
        Responded(w, "/ai/batch-analysis") /\ HasCompanies(request[w].body) =>
            LET items == CompaniesOf(request[w].body)
                result(i) == generate_company_insight(items[i], entropy[w][i])
                ok == {i \in 1..Len(items) : result(i).success}
                nth(j) == CHOOSE i \in ok : Cardinality({k \in ok : k <= i}) = j
                body == response[w].body
            IN  /\ response[w].status = 200
                /\ body.success = TRUE
                /\ body.processed_count = Cardinality(ok)
                /\ Len(body.insights) = Cardinality(ok)
                /\ \A j \in 1..Len(body.insights) : body.insights[j] = result(nth(j)).insight
                /\ \A i \in 1..Len(items) :
                       items[i].kind # "object"
                       \/ Get(items[i], "current_price", JNum(100)) = JStr("abc") => i \notin ok

\* three items, the second with a price that is no number: two insights
C4_Witness ==
    /\ Responded(1, "/ai/batch-analysis")
    /\ HasCompanies(request[1].body)
    /\ Len(CompaniesOf(request[1].body)) = 3
    /\ CompaniesOf(request[1].body)[2] = Company(3, "BAD", JStr("abc"), JStr("Finance"))
    /\ response[1].status = 200
    /\ response[1].body.processed_count = 2
    /\ response[1].body.insights[1].company_id = JNum(1)
    /\ response[1].body.insights[2].company_id = JNum(2)

\* the required top-level input of a request is missing or empty
MissingInput(req) ==
    \/ /\ req.endpoint = "/ai/insight"
       /\ req.body \in {NoBody, JObj(NoFields)}
    \/ /\ req.endpoint = "/ai/batch-analysis"
       /\ \/ req.body.kind # "object"
          \/ "companies" \notin DOMAIN req.body.fields
          \/ req.body.fields["companies"] \in {JArr(<<>>), JNull}

\* C5: a request whose required top-level input is missing or empty is
\* answered 400 with an error field, and the engine is not called.
C5_MissingInputIs400 ==
    \A w \in Workers :
        pc[w] = "responded" /\ MissingInput(request[w]) =>
            /\ response[w].status = 400
            /\ "error" \in DOMAIN response[w].body
            /\ calls[w] = 0

GenericErrors == {<<"Internal server error">>, <<"Batch analysis failed">>,
                  <<"Market sentiment analysis failed">>}

\* C6: the error of a 500 response is a generic message: it is not the text of
\* the exception, which only the log receives.
C6_GenericError500 ==
    \A w \in Workers :
        pc[w] = "responded" /\ response[w].status = 500 =>
            /\ response[w].body.error \in GenericErrors
            /\ \A i \in 1..Len(log[w]) : log[w][i][2] # response[w].body.error

\* C7: the reported score is within [-1, 1] and the label is the one the
\* thresholds give that reported score.
C7_LabelMatchesReportedScore ==
    \A w \in Workers :
        Responded(w, "/ai/market-sentiment") =>
            LET score == response[w].body.score     \* in thousandths
            IN  /\ score \in -1000..1000
                /\ response[w].body.sentiment =
                       (IF score > 300 THEN "Bullish"
                        ELSE IF score > -300 THEN "Neutral" ELSE "Bearish")

\* C8: the engine holds what its constructor put there, and two requests with
\* the same input and the same random values get the same response, whatever
\* else is being served.
C8_Stateless ==
    /\ models = EmptyDict
    /\ scalers = EmptyDict
    /\ \A v, w \in Workers :
           /\ pc[v] = "responded" /\ pc[w] = "responded"
           /\ request[v] = request[w]
           /\ entropy[v] = entropy[w]
           => /\ response[v] = response[w]
              /\ calls[v] = calls[w]
              /\ log[v] = log[w]

\* two workers hold the response to the same insight request
C8_Witness ==
    /\ NumWorkers >= 2
    /\ Responded(1, "/ai/insight") /\ Responded(2, "/ai/insight")
    /\ request[1] = request[2]
    /\ entropy[1] = entropy[2]
    /\ response[1].status = 200

\* C9: the recommendation follows from the confidence_score the response
\* reports: BUY needs it above 80, HOLD needs it above 65.
C9_RecommendationFromReportedScore ==
    \A w \in Workers : \A insight \in Insights(w) :
        /\ insight.recommendation = "BUY" => insight.confidence_score > 80
        /\ insight.recommendation = "HOLD" => insight.confidence_score > 65

\* C10: with the sector table as it is, SELL is never returned, BUY only for
\* Technology and E-commerce, HOLD only for Healthcare; Finance, Education and
\* every unrecognized sector get WATCH.
C10_RecommendationsPerSector ==
    \A w \in Workers : \A insight \in Insights(w) :
        LET name == insight.insight_text[3]
        IN  /\ insight.recommendation # "SELL"
            /\ insight.recommendation = "BUY" => name \in {"Technology", "E-commerce"}
            /\ insight.recommendation = "HOLD" => name = "Healthcare"
            /\ name \in {"Finance", "Education"} \/ name \notin DOMAIN sector_weights
                   => insight.recommendation = "WATCH"

\* the top confidence_score, and still WATCH: Education misses BUY by growth
\* and HOLD by risk
C10_Witness ==
    /\ Responded(1, "/ai/insight")
    /\ response[1].status = 200
    /\ SectorOf(request[1].body) = "Education"
    /\ response[1].body.confidence_score = ConfMax
    /\ response[1].body.recommendation = "WATCH"

====
